---- MODULE Spec2Model ----
(***************************************************************************)
(* Model of the Xray scan timeline tool                                    *)
(* (src/logs-xray-status-duration/xray_scan_timeline_traceid.py).          *)
(*                                                                         *)
(* Log lines are strings and every text operation of the script            *)
(* (substring test, lower(), strip(), the timestamp regex, the [-120:]     *)
(* slice, the duration format) is computed on the characters.              *)
(***************************************************************************)
EXTENDS Integers, Sequences, FiniteSets, TLC

VARIABLES
    corpus,        \* the *.log tree: sequence of [file, text], in os.walk order
    artifact,      \* args.artifact
    format,        \* args.format
    debug,         \* args.debug
    pc,            \* position in __main__
    trace_ids,     \* list(set) returned by find_trace_ids
    idx,           \* number of trace ids the for loop has consumed
    lines,         \* lines collected for the trace id handled last
    result,        \* parse_timeline's result dict for that trace id
    debug_status,  \* parse_timeline's debug_status dict for that trace id
    phase_status,  \* generate_json_output's local `status`, per phase
    overall,       \* generate_json_output's locals overall_start/overall_end
    all_results,   \* the list of JSON documents
    stdout,        \* what has been printed, in order
    files,         \* debug_<trace id>.log files written
    exit_code      \* process exit status once the run is over

vars == <<corpus, artifact, format, debug, pc, trace_ids, idx, lines, result,
          debug_status, phase_status, overall, all_results, stdout, files,
          exit_code>>

-----------------------------------------------------------------------------
(* Python values *)

None == [kind |-> "None"]
ValueError == [kind |-> "ValueError"]

-----------------------------------------------------------------------------
(* str operations *)

Digits == {"0", "1", "2", "3", "4", "5", "6", "7", "8", "9"}

HexLower == Digits \cup {"a", "b", "c", "d", "e", "f"}

DigitVal == [c \in Digits |->
    CASE c = "0" -> 0 [] c = "1" -> 1 [] c = "2" -> 2 [] c = "3" -> 3
      [] c = "4" -> 4 [] c = "5" -> 5 [] c = "6" -> 6 [] c = "7" -> 7
      [] c = "8" -> 8 [] c = "9" -> 9]

ToLowerChar == [c \in {"A", "B", "C", "D", "E", "F", "G", "H", "I", "J", "K",
                       "L", "M", "N", "O", "P", "Q", "R", "S", "T", "U", "V",
                       "W", "X", "Y", "Z"} |->
    CASE c = "A" -> "a" [] c = "B" -> "b" [] c = "C" -> "c" [] c = "D" -> "d"
      [] c = "E" -> "e" [] c = "F" -> "f" [] c = "G" -> "g" [] c = "H" -> "h"
      [] c = "I" -> "i" [] c = "J" -> "j" [] c = "K" -> "k" [] c = "L" -> "l"
      [] c = "M" -> "m" [] c = "N" -> "n" [] c = "O" -> "o" [] c = "P" -> "p"
      [] c = "Q" -> "q" [] c = "R" -> "r" [] c = "S" -> "s" [] c = "T" -> "t"
      [] c = "U" -> "u" [] c = "V" -> "v" [] c = "W" -> "w" [] c = "X" -> "x"
      [] c = "Y" -> "y" [] c = "Z" -> "z"]

\* s[i] (1-based), "" past the end
Char(s, i) == IF i >= 1 /\ i <= Len(s) THEN SubSeq(s, i, i) ELSE ""

\* `sub in s`
In(sub, s) ==
    \E i \in 1..(Len(s) - Len(sub) + 1) : SubSeq(s, i, i + Len(sub) - 1) = sub

\* the characters from..to of s, lower-cased (halving keeps the recursion
\* shallow)
RECURSIVE LowerRange(_, _, _)
LowerRange(s, from, to) ==
    IF from > to THEN ""
    ELSE IF from = to THEN
        (IF Char(s, from) \in DOMAIN ToLowerChar THEN ToLowerChar[Char(s, from)]
         ELSE Char(s, from))
    ELSE LowerRange(s, from, (from + to) \div 2)
         \o LowerRange(s, (from + to) \div 2 + 1, to)

\* s.lower()
Lower(s) == LowerRange(s, 1, Len(s))

\* s.strip(): leading and trailing blanks removed
Strip(s) ==
    LET nb == {i \in 1..Len(s) : Char(s, i) # " "}
    IN  IF nb = {} THEN ""
        ELSE SubSeq(s, CHOOSE i \in nb : \A j \in nb : i <= j,
                       CHOOSE i \in nb : \A j \in nb : i >= j)

\* s[-n:]
Tail_n(s, n) == IF Len(s) <= n THEN s ELSE SubSeq(s, Len(s) - n + 1, Len(s))

\* f"{n:02d}"
Fmt02d(n) == IF n >= 0 /\ n < 10 THEN "0" \o ToString(n) ELSE ToString(n)

\* f"{n:03d}"
Fmt03d(n) ==
    IF n >= 0 /\ n < 10 THEN "00" \o ToString(n)
    ELSE IF (n >= 10 /\ n < 100) \/ (n < 0 /\ n > -10) THEN
        (IF n < 0 THEN "-0" \o ToString(-n) ELSE "0" \o ToString(n))
    ELSE ToString(n)

\* re.findall(r'\[([a-f0-9]{16})\]', line)
bracket_tokens(line) ==
    {SubSeq(line, i + 1, i + 16) : i \in
        {j \in 1..(Len(line) - 17) :
            /\ Char(line, j) = "["
            /\ \A k \in (j + 1)..(j + 16) : Char(line, k) \in HexLower
            /\ Char(line, j + 17) = "]"}}

-----------------------------------------------------------------------------
(* datetime *)

AllDigits(s, from, to) == \A i \in from..to : Char(s, i) \in Digits

RECURSIVE ToInt(_, _, _)
ToInt(s, from, to) ==
    IF from > to THEN 0
    ELSE ToInt(s, from, to - 1) * 10 + DigitVal[Char(s, to)]

IsLeap(y) == (y % 4 = 0 /\ y % 100 # 0) \/ y % 400 = 0

DaysInMonth(y, m) ==
    IF m = 2 THEN (IF IsLeap(y) THEN 29 ELSE 28)
    ELSE IF m \in {4, 6, 9, 11} THEN 30 ELSE 31

\* days from 1970-01-01 to y-m-d in the proleptic Gregorian calendar
DaysFromCivil(y, m, d) ==
    LET yy  == IF m <= 2 THEN y - 1 ELSE y
        era == yy \div 400
        yoe == yy - era * 400
        doy == (153 * (IF m > 2 THEN m - 3 ELSE m + 9) + 2) \div 5 + d - 1
        doe == yoe * 365 + yoe \div 4 - yoe \div 100 + doy
    IN  era * 146097 + doe - 719468

\* The first day the model's arithmetic counts milliseconds from
\* (2024-01-01): TLC's integers are 32 bits wide, Python's are not.
EpochDays == DaysFromCivil(2024, 1, 1)

\* milliseconds of a datetime on the model's time axis; `a < b` and `b - a`
\* on datetimes are `<` and `-` on these
ToMs(dt) ==
    (DaysFromCivil(dt.year, dt.month, dt.day) - EpochDays) * 86400000
    + dt.hour * 3600000 + dt.minute * 60000 + dt.second * 1000 + dt.ms

\* the end of the longest run of digits that starts at position 21
RECURSIVE FracEnd(_, _)
FracEnd(s, i) == IF Char(s, i) \in Digits THEN FracEnd(s, i + 1) ELSE i - 1

\* re.match(r'(\d{4}-\d{2}-\d{2}T\d{2}:\d{2}:\d{2})\.(\d+)Z', line)
TimeRegexMatches(line) ==
    /\ AllDigits(line, 1, 4)   /\ Char(line, 5) = "-"
    /\ AllDigits(line, 6, 7)   /\ Char(line, 8) = "-"
    /\ AllDigits(line, 9, 10)  /\ Char(line, 11) = "T"
    /\ AllDigits(line, 12, 13) /\ Char(line, 14) = ":"
    /\ AllDigits(line, 15, 16) /\ Char(line, 17) = ":"
    /\ AllDigits(line, 18, 19) /\ Char(line, 20) = "."
    /\ FracEnd(line, 21) >= 21
    /\ Char(line, FracEnd(line, 21) + 1) = "Z"

\* variant: the fraction digits are taken as they stand, without padding
Millis_unpadded(line) ==
    LET e == FracEnd(line, 21)
        n == IF e - 20 > 3 THEN 3 ELSE e - 20
    IN  ToInt(line, 21, 20 + n)

\* int(m.group(2)[:3].ljust(3, '0'))
Millis(line) ==
    LET e == FracEnd(line, 21)
        n == IF e - 20 > 3 THEN 3 ELSE e - 20
        v == ToInt(line, 21, 20 + n)
    IN  IF n = 1 THEN v * 100 ELSE IF n = 2 THEN v * 10 ELSE v

\* extract_time(line): a datetime, None, or the ValueError strptime raises
\* for fields that are no calendar date or time of day
extract_time(line) ==
    IF ~TimeRegexMatches(line) THEN None
    ELSE LET y  == ToInt(line, 1, 4)
             mo == ToInt(line, 6, 7)
             d  == ToInt(line, 9, 10)
             h  == ToInt(line, 12, 13)
             mi == ToInt(line, 15, 16)
             s  == ToInt(line, 18, 19)
         IN  IF \/ y < 1 \/ mo < 1 \/ mo > 12 \/ d < 1
                \/ d > DaysInMonth(y, mo) \/ h > 23 \/ mi > 59 \/ s > 59
             THEN ValueError
             ELSE [kind |-> "datetime", year |-> y, month |-> mo, day |-> d,
                   hour |-> h, minute |-> mi, second |-> s,
                   ms |-> Millis(line)]

IsTime(t) == t.kind = "datetime"

-----------------------------------------------------------------------------
(* parse_timeline *)

Phases == <<"indexer", "persist", "analysis", "ca", "exposure">>

PhaseSet == {Phases[i] : i \in 1..Len(Phases)}

\* variant: the indexer start rule of the commented-out line 55
phase_keys_start_processing_msg == <<
    [key |-> "indexer_start",  sub1 |-> "index_worker",
     sub2 |-> "Start processing msg"],
    [key |-> "indexer_end",    sub1 |-> "index_worker",
     sub2 |-> "has completed to process message"],
    [key |-> "persist_start",  sub1 |-> "persist_worker",
     sub2 |-> "is processing message from persist"],
    [key |-> "persist_end",    sub1 |-> "persist_worker",
     sub2 |-> "has completed to process message"],
    [key |-> "analysis_start", sub1 |-> "analysis_worker",
     sub2 |-> "processing msg"],
    [key |-> "analysis_end",   sub1 |-> "analysis_worker",
     sub2 |-> "has completed to analyze the component"],
    [key |-> "ca_start",       sub1 |-> "cve_applicability_service",
     sub2 |-> "Starting CheckApplicability for url"],
    [key |-> "exposure_start", sub1 |-> "exposures_service",
     sub2 |-> "Exposures scan started after SCA scan"] >>

\* phase_keys: the single-pair rules (ca_end and exposure_end are None there)
phase_keys == <<
    [key |-> "indexer_start",  sub1 |-> "index_worker",
     sub2 |-> "processing m"],
    [key |-> "indexer_end",    sub1 |-> "index_worker",
     sub2 |-> "has completed to process message"],
    [key |-> "persist_start",  sub1 |-> "persist_worker",
     sub2 |-> "is processing message from persist"],
    [key |-> "persist_end",    sub1 |-> "persist_worker",
     sub2 |-> "has completed to process message"],
    [key |-> "analysis_start", sub1 |-> "analysis_worker",
     sub2 |-> "processing msg"],
    [key |-> "analysis_end",   sub1 |-> "analysis_worker",
     sub2 |-> "has completed to analyze the component"],
    [key |-> "ca_start",       sub1 |-> "cve_applicability_service",
     sub2 |-> "Starting CheckApplicability for url"],
    [key |-> "exposure_start", sub1 |-> "exposures_service",
     sub2 |-> "Exposures scan started after SCA scan"] >>

\* variant: the other utility with a ca start rule of its own
scan_status_phase_keys_ca_differs == <<
    [key |-> "indexer_start",  sub1 |-> "index_worker",
     sub2 |-> "Start processing msg"],
    [key |-> "indexer_end",    sub1 |-> "index_worker",
     sub2 |-> "has completed to process message"],
    [key |-> "persist_start",  sub1 |-> "persist_worker",
     sub2 |-> "is processing message from persist"],
    [key |-> "persist_end",    sub1 |-> "persist_worker",
     sub2 |-> "has completed to process message"],
    [key |-> "analysis_start", sub1 |-> "analysis_worker",
     sub2 |-> "processing msg for artifact"],
    [key |-> "analysis_end",   sub1 |-> "analysis_worker",
     sub2 |-> "has completed to analyze the component"],
    [key |-> "ca_start",       sub1 |-> "cve_applicability_service",
     sub2 |-> "Start CheckApplicability"],
    [key |-> "exposure_start", sub1 |-> "exposures_service",
     sub2 |-> "Exposures scan started after SCA scan"] >>

\* phase_keys of src/scan-status-timeline: the same keys in the same order,
\* other substrings for indexer_start and analysis_start
scan_status_phase_keys == <<
    [key |-> "indexer_start",  sub1 |-> "index_worker",
     sub2 |-> "Start processing msg"],
    [key |-> "indexer_end",    sub1 |-> "index_worker",
     sub2 |-> "has completed to process message"],
    [key |-> "persist_start",  sub1 |-> "persist_worker",
     sub2 |-> "is processing message from persist"],
    [key |-> "persist_end",    sub1 |-> "persist_worker",
     sub2 |-> "has completed to process message"],
    [key |-> "analysis_start", sub1 |-> "analysis_worker",
     sub2 |-> "processing msg for artifact"],
    [key |-> "analysis_end",   sub1 |-> "analysis_worker",
     sub2 |-> "has completed to analyze the component"],
    [key |-> "ca_start",       sub1 |-> "cve_applicability_service",
     sub2 |-> "Starting CheckApplicability for url"],
    [key |-> "exposure_start", sub1 |-> "exposures_service",
     sub2 |-> "Exposures scan started after SCA scan"] >>

\* variant: the Pypi triple carries the tag of the triple above the SKIPs
ca_end_patterns_pypi_failed == <<
    [sub1 |-> "contextual_analysis",
     sub2 |-> "from status: SCANNING to status: DONE", status |-> "DONE"],
    [sub1 |-> "contextual_analysis",
     sub2 |-> "from status: SCANNING to status: FAILED", status |-> "FAILED"],
    [sub1 |-> "scan_build_or_rb",
     sub2 |-> "Build not scanned for CA. All artifacts were skipped",
     status |-> "SKIP"],
    [sub1 |-> "cve_applicability_service",
     sub2 |-> "Package type Pypi is not supported", status |-> "FAILED"],
    [sub1 |-> "cve_applicability_service",
     sub2 |-> "No vulnerable components found for applicability scan",
     status |-> "SKIP"] >>

ca_end_patterns == <<
    [sub1 |-> "contextual_analysis",
     sub2 |-> "from status: SCANNING to status: DONE", status |-> "DONE"],
    [sub1 |-> "contextual_analysis",
     sub2 |-> "from status: SCANNING to status: FAILED", status |-> "FAILED"],
    [sub1 |-> "scan_build_or_rb",
     sub2 |-> "Build not scanned for CA. All artifacts were skipped",
     status |-> "SKIP"],
    [sub1 |-> "cve_applicability_service",
     sub2 |-> "Package type Pypi is not supported", status |-> "SKIP"],
    [sub1 |-> "cve_applicability_service",
     sub2 |-> "No vulnerable components found for applicability scan",
     status |-> "SKIP"] >>

\* variant: the job-failure triple carries a tag of its own
exposure_end_patterns_error_tag == <<
    [sub1 |-> "exposures",
     sub2 |-> "from status: SCANNING to status: DONE", status |-> "DONE"],
    [sub1 |-> "exposures_execution_worker", sub2 |-> "Job failed",
     status |-> "FAILED"],
    [sub1 |-> "scan_status_service",
     sub2 |-> "from status: SCANNING to status: FAILED", status |-> "FAILED"],
    [sub1 |-> "exposures_service", sub2 |-> "Handling job failure",
     status |-> "ERROR"],
    [sub1 |-> "exposures_service",
     sub2 |-> "Exposures scan is enabled but no categories were selected for scan. Scan aborted",
     status |-> "ABORTED"] >>

exposure_end_patterns == <<
    [sub1 |-> "exposures",
     sub2 |-> "from status: SCANNING to status: DONE", status |-> "DONE"],
    [sub1 |-> "exposures_execution_worker", sub2 |-> "Job failed",
     status |-> "FAILED"],
    [sub1 |-> "scan_status_service",
     sub2 |-> "from status: SCANNING to status: FAILED", status |-> "FAILED"],
    [sub1 |-> "exposures_service", sub2 |-> "Handling job failure",
     status |-> "FAILED"],
    [sub1 |-> "exposures_service",
     sub2 |-> "Exposures scan is enabled but no categories were selected for scan. Scan aborted",
     status |-> "ABORTED"] >>

\* the words of the fallback decision (determine_status, show)
fallback_words == {"fail", "failed", "warn", "skip", "not found", "abort"}

keep_keywords == {"index", "persist", "analysis", "ca", "exposure", "scan",
                  "worker", "cve_applicability", "exposures_service"}

suspicious_words == {"fail", "error", "warn", "skip", "missing", "retry"}

-----------------------------------------------------------------------------
(* the inputs: the lines log trees are made of *)

TokA == "abcdef1234567890"
TokB == "0123456789abcdef"

T0 == "2024-01-01T10:00:00.123Z"
T1 == "2024-01-01T10:00:05.456Z"
T2 == "2024-01-01T11:00:07.5Z"

\* a line of xray.log
LogLine(ts, tok, body) ==
    [file |-> "xray.log", text |-> ts \o " [" \o tok \o "] " \o body]

AllArguments == {"table", "json"} \X BOOLEAN

FocusArguments == {<<"json", TRUE>>, <<"table", FALSE>>}

\* two runs' worth of lines: trace id A (found through the artifact, with an
\* indexer phase), trace id B (found, but with no phase line of its own),
\* and lines the tool must leave alone
MainCatalogue == {
    LogLine(T0, TokA, "index_worker is processing message foo.jar"),
    LogLine(T1, TokA, "index_worker has completed to process message"),
    LogLine(T0, TokB, "index_worker is processing message foo.jar"),
    LogLine(T1, TokB, "router policy for foo.jar"),
    LogLine(T1, TokB, "persist_worker download of bar.jar "),
    LogLine(T0, "ABCDEF1234567890", "index_worker is processing message foo.jar"),
    LogLine("", TokA, "scan of foo.jar "),
    [file |-> "notes.txt",
     text |-> T0 \o " [" \o TokB \o "] index_worker is processing message foo.jar"] }

\* one run's phase lines: starts and ends of the indexer, ca and exposure
\* phases at different times, an end line without a timestamp
PhaseCatalogue == {
    LogLine(T0, TokA, "index_worker is processing message foo.jar"),
    LogLine(T1, TokA, "index_worker has completed to process message foo.jar"),
    LogLine(T2, TokA, "index_worker has completed to process message foo.jar"),
    LogLine(T1, TokA, "cve_applicability_service Starting CheckApplicability for url foo.jar"),
    LogLine(T0, TokA, "contextual_analysis foo.jar from status: SCANNING to status: DONE"),
    LogLine(T1, TokA, "contextual_analysis foo.jar from status: SCANNING to status: DONE"),
    LogLine("", TokA, "contextual_analysis foo.jar from status: SCANNING to status: DONE"),
    LogLine(T2, TokA, "contextual_analysis foo.jar from status: SCANNING to status: FAILED"),
    LogLine(T2, TokA, "cve_applicability_service Package type Pypi is not supported foo.jar"),
    LogLine(T0, TokA, "exposures_service Exposures scan started after SCA scan foo.jar"),
    LogLine(T2, TokA, "exposures foo.jar from status: SCANNING to status: DONE"),
    LogLine(T1, TokA, "exposures_service Handling job failure foo.jar"),
    LogLine(T2, TokA, "exposures_service foo.jar Exposures scan is enabled but no categories were selected for scan. Scan aborted") }

\* one run's indexer and ca starts, an indexer end, and lines the fallback
\* scan can pick, one of them with its words more than 120 characters from
\* its end
FallbackCatalogue == {
    LogLine(T0, TokA, "index_worker is processing message foo.jar"),
    LogLine(T1, TokA, "index_worker has completed to process message foo.jar"),
    LogLine(T0, TokA, "cve_applicability_service Starting CheckApplicability for url foo.jar"),
    LogLine(T1, TokA, "index_worker warn: slow index of foo.jar"),
    LogLine(T1, TokA, "indexer warn: slow scan of foo.jar"),
    LogLine(T1, TokA, "indexer failed with warning foo.jar"),
    LogLine(T1, TokA, "indexer error: scan aborted foo.jar"),
    LogLine(T1, TokA, "indexer warn: scan aborted foo.jar"),
    LogLine(T1, TokA, "indexer error: layer not found foo.jar"),
    LogLine(T1, TokA, "indexer retry foo.jar"),
    LogLine(T1, TokA, "Indexer ERROR in scan of foo.jar"),
    LogLine(T1, TokA, "indexer warn: slow layer 0123456789012345678901234567890123456789012345678901234567890123456789012345678901234567890123456789012345678901234567890123456789 foo.jar") }

\* indexer start lines under prefixes of every kind: fractions of one, two,
\* three and more digits, fields that are no date or no time of day, and
\* prefixes the pattern does not match; indexer end lines with and without
\* a time
TimeCatalogue == {
    LogLine("2024-01-01T10:00:00.5Z", TokA, "index_worker is processing message foo.jar"),
    LogLine("2024-01-01T10:00:00.12Z", TokA, "index_worker is processing message foo.jar"),
    LogLine(T0, TokA, "index_worker is processing message foo.jar"),
    LogLine("2024-01-01T10:00:01.123456Z", TokA, "index_worker is processing message foo.jar"),
    LogLine("2024-01-01T10:00:02.0009Z", TokA, "index_worker is processing message foo.jar"),
    LogLine("2024-13-01T10:00:00.123Z", TokA, "index_worker is processing message foo.jar"),
    LogLine("2023-02-29T10:00:00.123Z", TokA, "index_worker is processing message foo.jar"),
    LogLine("2024-01-01T24:00:00.123Z", TokA, "index_worker is processing message foo.jar"),
    LogLine("2024-01-01T10:00:00Z", TokA, "index_worker is processing message foo.jar"),
    LogLine("", TokA, "index_worker is processing message foo.jar"),
    LogLine(T1, TokA, "index_worker has completed to process message foo.jar"),
    LogLine(T2, TokA, "index_worker has completed to process message foo.jar"),
    LogLine("", TokA, "index_worker has completed to process message foo.jar") }

\* one run's lines for the two utilities: indexer and analysis start lines in
\* the wording of either phase_keys table, an indexer end, a ca start and end,
\* a line the fallback scan can pick
TwinCatalogue == {
    LogLine(T0, TokA, "index_worker Start processing msg foo.jar"),
    LogLine(T1, TokA, "index_worker is processing message foo.jar"),
    LogLine(T0, TokA, "analysis_worker processing msg for artifact foo.jar"),
    LogLine(T1, TokA, "analysis_worker processing msg foo.jar"),
    LogLine(T2, TokA, "index_worker has completed to process message foo.jar"),
    LogLine(T0, TokA, "cve_applicability_service Starting CheckApplicability for url foo.jar"),
    LogLine(T1, TokA, "contextual_analysis foo.jar from status: SCANNING to status: FAILED"),
    LogLine(T1, TokA, "indexer warn: slow scan of foo.jar") }

-----------------------------------------------------------------------------
(* The text operations, computed once per catalogue line.  Has, LowerOf,    *)
(* StripOf, TokensOf and TimeOf are In, Lower, Strip, bracket_tokens and    *)
(* extract_time; for the texts and substrings of the tables below the value *)
(* is looked up instead of recomputed.                                      *)

MemoSubs ==
    {phase_keys[i].sub1 : i \in 1..Len(phase_keys)}
    \cup {phase_keys[i].sub2 : i \in 1..Len(phase_keys)}
    \cup {scan_status_phase_keys[i].sub2 : i \in 1..Len(scan_status_phase_keys)}
    \cup {ca_end_patterns[i].sub1 : i \in 1..Len(ca_end_patterns)}
    \cup {ca_end_patterns[i].sub2 : i \in 1..Len(ca_end_patterns)}
    \cup {exposure_end_patterns[i].sub1 : i \in 1..Len(exposure_end_patterns)}
    \cup {exposure_end_patterns[i].sub2 : i \in 1..Len(exposure_end_patterns)}
    \cup keep_keywords \cup suspicious_words \cup fallback_words \cup PhaseSet
    \cup {"foo.jar", "[" \o TokA \o "]", "[" \o TokB \o "]"}

MemoRawOf(entries) ==
    {e.text : e \in entries} \cup {Strip(e.text) : e \in entries}
    \cup {Tail_n(Strip(e.text), 120) : e \in entries}
    \cup {"INCOMPLETE"}

MemoRaw ==
    MemoRawOf(MainCatalogue \cup PhaseCatalogue \cup FallbackCatalogue
              \cup TimeCatalogue \cup TwinCatalogue)

LowerMemo == [s \in MemoRaw |-> Lower(s)]

MemoTextsOf(lower) == DOMAIN lower \cup {lower[s] : s \in DOMAIN lower}

MemoTexts == MemoTextsOf(LowerMemo)

InMemo == [subs |-> MemoSubs,
           has  |-> [s \in MemoTexts |-> {sub \in MemoSubs : In(sub, s)}]]

TimeMemo == [s \in MemoRaw |-> extract_time(s)]

StripMemo == [s \in MemoRaw |-> Strip(s)]

TokensMemo == [s \in MemoRaw |-> bracket_tokens(s)]

\* the table's entry for s, or the value computed directly
At(memo, s, direct) == IF s \in DOMAIN memo THEN memo[s] ELSE direct

HasIn(memo, sub, s) ==
    IF s \in DOMAIN memo.has /\ sub \in memo.subs THEN sub \in memo.has[s]
    ELSE In(sub, s)

StripOf(s) == At(StripMemo, s, Strip(s))

TokensOf(line) == At(TokensMemo, line, bracket_tokens(line))

Has(sub, s) == HasIn(InMemo, sub, s)

LowerOf(s) == At(LowerMemo, s, Lower(s))

TimeOf(line) == At(TimeMemo, line, extract_time(line))

\* reversed(seq)
Reversed(seq) == [i \in 1..Len(seq) |-> seq[Len(seq) + 1 - i]]

\* `if sub1 in line and sub2 in line`
BothIn(sub1, sub2, line) == Has(sub1, line) /\ Has(sub2, line)

\* The inner loop of every rule: walk seq from position i, take the time of
\* the first line that holds both substrings and has one (`if t: ... break`).
\* None when the loop runs out; the ValueError of extract_time propagates.
RECURSIVE scan_lines(_, _, _, _)
scan_lines(sub1, sub2, seq, i) ==
    IF i > Len(seq) THEN None
    ELSE IF BothIn(sub1, sub2, seq[i]) /\ TimeOf(seq[i]) # None
         THEN TimeOf(seq[i])
         ELSE scan_lines(sub1, sub2, seq, i + 1)

\* `for line in reversed(lines) if key.endswith('_end') else lines`
EndsWith(s, suffix) ==
    Len(s) >= Len(suffix) /\ SubSeq(s, Len(s) - Len(suffix) + 1, Len(s)) = suffix

\* variant: every rule walks the lines forwards
single_pair_forwards(rule, ls) ==
    scan_lines(rule.sub1, rule.sub2, ls, 1)

single_pair(rule, ls) ==
    scan_lines(rule.sub1, rule.sub2,
               IF EndsWith(rule.key, "_end") THEN Reversed(ls) ELSE ls, 1)

\* variant: lines outermost: the last line that matches any triple decides
RECURSIVE scan_line_first(_, _, _)
scan_line_first(patterns, ls, i) ==
    IF i < 1 THEN None
    ELSE LET ks == {k \in 1..Len(patterns) :
                       BothIn(patterns[k].sub1, patterns[k].sub2, ls[i])}
         IN  IF ks # {} /\ TimeOf(ls[i]) # None
             THEN (IF TimeOf(ls[i]) = ValueError THEN ValueError
                   ELSE [kind |-> "end", t |-> TimeOf(ls[i]),
                         status |-> patterns[CHOOSE k \in ks :
                                        \A m \in ks : k <= m].status])
             ELSE scan_line_first(patterns, ls, i - 1)

scan_patterns_line_first(patterns, ls, k) ==
    scan_line_first(patterns, ls, Len(ls))

\* The outer loop of the ca_end and exposure_end rules: the triples in list
\* order, stopping at the first one whose scan of reversed(lines) yields a
\* time.  [t, status], or None, or ValueError.
RECURSIVE scan_patterns(_, _, _)
scan_patterns(patterns, ls, k) ==
    IF k > Len(patterns) THEN None
    ELSE LET t == scan_lines(patterns[k].sub1, patterns[k].sub2,
                             Reversed(ls), 1)
         IN  IF t = ValueError THEN ValueError
             ELSE IF t # None
                  THEN [kind |-> "end", t |-> t, status |-> patterns[k].status]
                  ELSE scan_patterns(patterns, ls, k + 1)

ca_end_rule(ls) == scan_patterns(ca_end_patterns, ls, 1)

exposure_end_rule(ls) == scan_patterns(exposure_end_patterns, ls, 1)

\* The --debug diagnostic after a ca_end rule that found nothing: the same
\* triples over reversed(lines), assigning ca_end and ca_end_status on a line
\* that holds both substrings and has a time.
\* variant: the diagnostic takes a line on its first substring alone
ca_end_diagnostic_first_substring(ls) ==
    scan_patterns([k \in 1..Len(ca_end_patterns) |->
                      [sub1 |-> ca_end_patterns[k].sub1,
                       sub2 |-> ca_end_patterns[k].sub1,
                       status |-> ca_end_patterns[k].status]], ls, 1)

ca_end_diagnostic(ls) == scan_patterns(ca_end_patterns, ls, 1)

\* the ca_end branch as a whole
ca_end_after(found, ls, debug_mode) ==
    IF found = None /\ debug_mode THEN ca_end_diagnostic(ls) ELSE found

ca_end_branch(ls, debug_mode) == ca_end_after(ca_end_rule(ls), ls, debug_mode)

\* what each single-pair rule of phase_keys finds
PairTimes(ls) ==
    [i \in 1..Len(phase_keys) |-> single_pair(phase_keys[i], ls)]

\* the keys of the single-pair rules that found a time
PairKeysFound(pairs) ==
    {phase_keys[i].key : i \in {j \in DOMAIN pairs : IsTime(pairs[j])}}

PairRule(key) ==
    CHOOSE i \in 1..Len(phase_keys) : phase_keys[i].key = key

\* the last line of phase_lines = [l for l in lines if phase in l.lower()]
\* that holds a suspicious word, cut to its last 120 characters; else the
\* literal INCOMPLETE
\* variant: the whole stripped line is kept
RECURSIVE debug_status_of_whole_line(_, _, _)
debug_status_of_whole_line(phase, ls, i) ==
    IF i < 1 THEN "INCOMPLETE"
    ELSE IF /\ Has(phase, LowerOf(ls[i]))
            /\ \E k \in suspicious_words : Has(k, LowerOf(ls[i]))
         THEN StripOf(ls[i])
         ELSE debug_status_of_whole_line(phase, ls, i - 1)

\* variant: the phase name and the words are looked for in the line as it is
RECURSIVE debug_status_of_case_sensitive(_, _, _)
debug_status_of_case_sensitive(phase, ls, i) ==
    IF i < 1 THEN "INCOMPLETE"
    ELSE IF /\ Has(phase, ls[i])
            /\ \E k \in suspicious_words : Has(k, ls[i])
         THEN Tail_n(StripOf(ls[i]), 120)
         ELSE debug_status_of_case_sensitive(phase, ls, i - 1)

RECURSIVE debug_status_of(_, _, _)
debug_status_of(phase, ls, i) ==
    IF i < 1 THEN "INCOMPLETE"
    ELSE IF /\ Has(phase, LowerOf(ls[i]))
            /\ \E k \in suspicious_words : Has(k, LowerOf(ls[i]))
         THEN Tail_n(StripOf(ls[i]), 120)
         ELSE debug_status_of(phase, ls, i - 1)

\* parse_timeline(lines, artifact, debug_mode): raised, or result and
\* debug_status.  result is a dict: a function on the keys that were set.
\* (The isinstance(val, list) branch is dead: no rule of phase_keys is a list.)
timeline_of(ls, pairs, ca, ex) ==
    IF \/ \E i \in DOMAIN pairs : pairs[i] = ValueError
       \/ ca = ValueError
       \/ ex = ValueError
    THEN [raised |-> TRUE]
    ELSE [raised |-> FALSE,
          result |-> [k \in PairKeysFound(pairs)
                          \cup (IF ca.kind = "end"
                                THEN {"ca_end", "ca_end_status"} ELSE {})
                          \cup (IF ex.kind = "end"
                                THEN {"exposure_end", "exposure_end_status"}
                                ELSE {}) |->
              CASE k = "ca_end" -> ca.t
                [] k = "ca_end_status" -> ca.status
                [] k = "exposure_end" -> ex.t
                [] k = "exposure_end_status" -> ex.status
                [] OTHER -> pairs[PairRule(k)]],
          debug_status |-> [p \in PhaseSet |->
              debug_status_of(p, ls, Len(ls))]]

parse_timeline(ls, debug_mode) ==
    timeline_of(ls, PairTimes(ls), ca_end_branch(ls, debug_mode),
                exposure_end_rule(ls))

\* parse_timeline of src/scan-status-timeline: the same function body over
\* its own phase_keys table
scan_status_pair_times(ls) ==
    [i \in 1..Len(scan_status_phase_keys) |->
        single_pair(scan_status_phase_keys[i], ls)]

scan_status_parse_timeline(ls, debug_mode) ==
    timeline_of(ls, scan_status_pair_times(ls), ca_end_branch(ls, debug_mode),
                exposure_end_rule(ls))

\* result.get(key)
Get(res, key) == IF key \in DOMAIN res THEN res[key] ELSE None

-----------------------------------------------------------------------------
(* format_duration, determine_status *)

\* (end_time - start_time) in milliseconds: delta.total_seconds() * 1000
delta_ms(start_time, end_time) == ToMs(end_time) - ToMs(start_time)

\* total_seconds // 3600, (total_seconds % 3600) // 60, total_seconds % 60,
\* each through int(): Python's floor division and non-negative remainder
hms(d) == [h   |-> d \div 3600000,
           m   |-> (d % 3600000) \div 60000,
           sec |-> (d % 60000) \div 1000]

\* variant: the hours segment is always printed
format_duration_always_hours(start_time, end_time) ==
    IF start_time = None \/ end_time = None THEN "0"
    ELSE LET x == hms(delta_ms(start_time, end_time))
         IN  Fmt02d(x.h) \o ":" \o Fmt02d(x.m) \o ":" \o Fmt02d(x.sec)

format_duration(start_time, end_time) ==
    IF start_time = None \/ end_time = None THEN "0"
    ELSE LET x == hms(delta_ms(start_time, end_time))
         IN  IF x.h > 0
             THEN Fmt02d(x.h) \o ":" \o Fmt02d(x.m) \o ":" \o Fmt02d(x.sec)
             ELSE Fmt02d(x.m) \o ":" \o Fmt02d(x.sec)

\* an optional str argument: None or Str(text)
Str(text) == [kind |-> "str", v |-> text]

\* any(k in status for k in words)
any_in(words, status) == \E k \in words : Has(k, status)

\* variant: abort is looked for before warn/skip/not found
status_of_lowered_abort_first(status) ==
    IF any_in({"fail", "failed"}, status) THEN "FAILED"
    ELSE IF any_in({"abort"}, status) THEN "ABORTED"
    ELSE IF any_in({"warn", "skip", "not found"}, status) THEN "WARNING"
    ELSE "INCOMPLETE"

\* the if/elif chain on status = debug_status.lower() (lines 195-202)
status_of_lowered(status) ==
    IF any_in({"fail", "failed"}, status) THEN "FAILED"
    ELSE IF any_in({"warn", "skip", "not found"}, status) THEN "WARNING"
    ELSE IF any_in({"abort"}, status) THEN "ABORTED"
    ELSE "INCOMPLETE"

\* the decision on the fallback text, as determine_status takes it
\* (lines 194-202)
fallback_status(text) == status_of_lowered(LowerOf(text))

\* variant: the fallback text is consulted although an end time exists
determine_status_fallback_first(start_time, end_time, status_key, res, dbg) ==
    IF start_time = None THEN "NOT_STARTED"
    ELSE IF dbg # None /\ dbg.v # "" /\ fallback_status(dbg.v) # "INCOMPLETE"
         THEN fallback_status(dbg.v)
    ELSE IF end_time = None THEN "INCOMPLETE"
    ELSE IF status_key # None /\ status_key.v \in DOMAIN res THEN
        (IF res[status_key.v] = "FAILED" THEN "FAILED"
         ELSE IF res[status_key.v] = "SKIP" THEN "NOT_SUPPORTED"
         ELSE IF res[status_key.v] = "ABORTED" THEN "ABORTED"
         ELSE "DONE")
    ELSE "DONE"

\* variant: NOT_STARTED only when the end time is missing too
determine_status_end_without_start(start_time, end_time, status_key, res, dbg) ==
    IF start_time = None /\ end_time = None THEN "NOT_STARTED"
    ELSE IF end_time = None THEN
        (IF dbg # None /\ dbg.v # "" THEN fallback_status(dbg.v)
         ELSE "INCOMPLETE")
    ELSE IF status_key # None /\ status_key.v \in DOMAIN res THEN
        (IF res[status_key.v] = "FAILED" THEN "FAILED"
         ELSE IF res[status_key.v] = "SKIP" THEN "NOT_SUPPORTED"
         ELSE IF res[status_key.v] = "ABORTED" THEN "ABORTED"
         ELSE "DONE")
    ELSE "DONE"

\* determine_status(start_time, end_time, status_key, result, debug_status);
\* status_key and dbg are None or Str(..)
determine_status(start_time, end_time, status_key, res, dbg) ==
    IF start_time = None THEN "NOT_STARTED"
    ELSE IF end_time = None THEN
        (IF dbg # None /\ dbg.v # "" THEN fallback_status(dbg.v)
         ELSE "INCOMPLETE")
    ELSE IF status_key # None /\ status_key.v \in DOMAIN res THEN
        (IF res[status_key.v] = "FAILED" THEN "FAILED"
         ELSE IF res[status_key.v] = "SKIP" THEN "NOT_SUPPORTED"
         ELSE IF res[status_key.v] = "ABORTED" THEN "ABORTED"
         ELSE "DONE")
    ELSE "DONE"

-----------------------------------------------------------------------------
(* generate_json_output *)

Fmt04d(n) ==
    IF n < 10 THEN "000" \o ToString(n)
    ELSE IF n < 100 THEN "00" \o ToString(n)
    ELSE IF n < 1000 THEN "0" \o ToString(n) ELSE ToString(n)

\* dt.isoformat(sep): the fraction is printed only when microsecond # 0
isoformat(dt, sep) ==
    Fmt04d(dt.year) \o "-" \o Fmt02d(dt.month) \o "-" \o Fmt02d(dt.day) \o sep
    \o Fmt02d(dt.hour) \o ":" \o Fmt02d(dt.minute) \o ":" \o Fmt02d(dt.second)
    \o (IF dt.ms = 0 THEN "" ELSE "." \o Fmt03d(dt.ms) \o "000")

\* end_time.isoformat() + "Z" if end_time else None
json_time(end_time) ==
    IF end_time = None THEN None ELSE Str(isoformat(end_time, "T") \o "Z")

\* re.search(r'([a-f0-9]{64})', artifact)
sha256_of(art) ==
    LET at == {i \in 1..(Len(art) - 63) :
                  \A j \in i..(i + 63) : Char(art, j) \in HexLower}
    IN  IF at = {} THEN None
        ELSE Str(SubSeq(art, CHOOSE i \in at : \A j \in at : i <= j,
                        (CHOOSE i \in at : \A j \in at : i <= j) + 63))

\* variant: the comparison of the overall end, used for the start
RECURSIVE overall_start_after_greater(_, _)
overall_start_after_greater(res, n) ==
    IF n = 0 THEN None
    ELSE LET prev       == overall_start_after_greater(res, n - 1)
             start_time == Get(res, Phases[n] \o "_start")
         IN  IF start_time # None
                /\ (prev = None \/ ToMs(start_time) > ToMs(prev))
             THEN start_time ELSE prev

\* overall_start after the first n phases of the loop
RECURSIVE overall_start_after(_, _)
overall_start_after(res, n) ==
    IF n = 0 THEN None
    ELSE LET prev       == overall_start_after(res, n - 1)
             start_time == Get(res, Phases[n] \o "_start")
         IN  IF start_time # None
                /\ (prev = None \/ ToMs(start_time) < ToMs(prev))
             THEN start_time ELSE prev

\* overall_end after the first n phases of the loop
RECURSIVE overall_end_after(_, _)
overall_end_after(res, n) ==
    IF n = 0 THEN None
    ELSE LET prev     == overall_end_after(res, n - 1)
             end_time == Get(res, Phases[n] \o "_end")
         IN  IF end_time # None
                /\ (prev = None \/ ToMs(end_time) > ToMs(prev))
             THEN end_time ELSE prev

\* the local `status` of the loop, for one phase
json_phase_status(res, dbg, phase) ==
    determine_status(Get(res, phase \o "_start"), Get(res, phase \o "_end"),
                     Str(phase \o "_end_status"), res, Str(dbg[phase]))

\* the status/duration/time block of one phase
json_phase_block(res, dbg, phase) ==
    [status   |-> json_phase_status(res, dbg, phase),
     duration |-> format_duration(Get(res, phase \o "_start"),
                                  Get(res, phase \o "_end")),
     time     |-> json_time(Get(res, phase \o "_end"))]

\* variant: the fallback text of the first started phase is passed on
json_overall_status_with_fallback(res, dbg) ==
    determine_status(overall_start_after(res, Len(Phases)),
                     overall_end_after(res, Len(Phases)), None, res,
                     IF \E i \in 1..Len(Phases) : (Phases[i] \o "_start") \in DOMAIN res
                     THEN Str(dbg[Phases[CHOOSE i \in 1..Len(Phases) :
                              /\ (Phases[i] \o "_start") \in DOMAIN res
                              /\ \A j \in 1..(i - 1) :
                                    (Phases[j] \o "_start") \notin DOMAIN res]])
                     ELSE None)

\* overall_status = determine_status(overall_start, overall_end, None, result):
\* debug_status, in scope as dbg, is not passed
\* variant: DONE needs one phase with both a start and an end
json_overall_status_same_phase(res, dbg) ==
    IF \A p \in PhaseSet : Get(res, p \o "_start") = None THEN "NOT_STARTED"
    ELSE IF \E p \in PhaseSet : /\ Get(res, p \o "_start") # None
                                /\ Get(res, p \o "_end") # None
         THEN "DONE" ELSE "INCOMPLETE"

json_overall_status(res, dbg) ==
    determine_status(overall_start_after(res, Len(Phases)),
                     overall_end_after(res, Len(Phases)), None, res, None)

json_overall_block(res, dbg) ==
    [status   |-> json_overall_status(res, dbg),
     duration |-> format_duration(overall_start_after(res, Len(Phases)),
                                  overall_end_after(res, Len(Phases))),
     time     |-> json_time(overall_end_after(res, Len(Phases)))]

generate_json_output(res, dbg, art, trace_id) ==
    LET ex == json_phase_block(res, dbg, "exposure")
        fixed == [duration |-> "0", time |-> ex.time,
                  status |-> "NOT_SUPPORTED"]
    IN  [repositoryPath |-> art,
         sha256         |-> sha256_of(art),
         traceId        |-> trace_id,
         overall        |-> json_overall_block(res, dbg),
         details        |->
            [sca                 |-> json_phase_block(res, dbg, "indexer"),
             contextual_analysis |-> json_phase_block(res, dbg, "ca"),
             exposures           |->
                [status |-> ex.status, duration |-> ex.duration,
                 time |-> ex.time,
                 categories |-> [iac |-> fixed, secrets |-> ex,
                                 services |-> fixed, applications |-> ex]],
             violations          |-> json_overall_block(res, dbg)]]

-----------------------------------------------------------------------------
(* show *)

\* the state word of a row with a start and no end (lines 358-366)
show_state_of_lowered(status) ==
    IF any_in({"fail", "failed"}, status) THEN "FAILED"
    ELSE IF any_in({"warn", "skip", "not found"}, status) THEN "WARNING"
    ELSE IF any_in({"abort"}, status) THEN "ABORTED"
    ELSE "INCOMPLETE"

show_state(text) == show_state_of_lowered(LowerOf(text))

\* int((total_seconds - int(total_seconds)) * 1000): the script computes it
\* in binary floating point, which yields the exact millisecond remainder
\* (truncated towards zero) or the value one closer to zero; both are kept.
show_ms(d) ==
    LET exact == IF d >= 0 THEN d % 1000 ELSE -((-d) % 1000)
    IN  IF exact = 0 THEN {0}
        ELSE IF exact > 0 THEN {exact, exact - 1} ELSE {exact, exact + 1}

\* '-'*21
Dashes == "---------------------"

\* one row of the table: the printed cells (column padding left out)
show_row(res, dbg, phase) ==
    LET s == Get(res, phase \o "_start")
        e == Get(res, phase \o "_end")
        tagged == (phase \o "_end_status") \in DOMAIN res
        status == res[phase \o "_end_status"]
    IN  IF s # None /\ e # None THEN
            [phase |-> phase, start |-> isoformat(s, " "),
             end |-> isoformat(e, " "),
             duration |-> ToString(hms(delta_ms(s, e)).h) \o ":"
                          \o Fmt02d(hms(delta_ms(s, e)).m) \o ":"
                          \o Fmt02d(hms(delta_ms(s, e)).sec),
             ms |-> show_ms(delta_ms(s, e)),
             state |-> IF tagged /\ status \in {"FAILED", "SKIP", "ABORTED"}
                       THEN status ELSE ""]
        ELSE IF s # None THEN
            [phase |-> phase, start |-> isoformat(s, " "), end |-> Dashes,
             duration |-> "", ms |-> {}, state |-> show_state(dbg[phase])]
        ELSE
            [phase |-> phase, start |-> Dashes, end |-> Dashes,
             duration |-> "", ms |-> {}, state |-> ""]

\* show(result, debug_status, "table"): the rows under the two header lines
show(res, dbg) == [i \in 1..Len(Phases) |-> show_row(res, dbg, Phases[i])]

-----------------------------------------------------------------------------
(* find_trace_ids, find_all_lines_by_trace_id *)

\* variant: the tokens of every line, with or without the artifact
find_trace_ids_any_line(log, art) ==
    UNION {TokensOf(log[i].text) : i \in
        {j \in 1..Len(log) : EndsWith(log[j].file, ".log")}}

\* the set find_trace_ids builds before list(...)
find_trace_ids(log, art) ==
    UNION {TokensOf(log[i].text) : i \in
        {j \in 1..Len(log) : EndsWith(log[j].file, ".log")
                             /\ Has(art, log[j].text)}}

\* variant: every line with the bracketed trace id is kept
is_kept_any_line(entry, trace_id) ==
    /\ EndsWith(entry.file, ".log")
    /\ Has("[" \o trace_id \o "]", entry.text)

\* `if bracket_trace_id in line: if any(kw in line ...)`
is_kept(entry, trace_id) ==
    /\ EndsWith(entry.file, ".log")
    /\ Has("[" \o trace_id \o "]", entry.text)
    /\ \E kw \in keep_keywords : Has(kw, entry.text)

RECURSIVE collect_upto(_, _, _)
collect_upto(log, trace_id, n) ==
    IF n = 0 THEN <<>>
    ELSE IF is_kept(log[n], trace_id)
         THEN Append(collect_upto(log, trace_id, n - 1), StripOf(log[n].text))
         ELSE collect_upto(log, trace_id, n - 1)

\* variant: the list of the trace id before is not emptied
find_all_lines_by_trace_id_carried(log, trace_id) ==
    lines \o collect_upto(log, trace_id, Len(log))

\* `lines = []` at every call, then the files in os.walk order
find_all_lines_by_trace_id(log, trace_id) == collect_upto(log, trace_id, Len(log))

\* the orders list(set) can give
Orders(S) ==
    {q \in [1..Cardinality(S) -> S] : \A i, j \in DOMAIN q : q[i] = q[j] => i = j}

-----------------------------------------------------------------------------
(* the debug dump: sorted(lines, key=lambda l: extract_time(l) or datetime.min) *)

\* key(a) <= key(b); datetime.min (no time) sorts before every time
key_le(a, b) ==
    \/ TimeOf(a) = None
    \/ TimeOf(b) # None /\ ToMs(TimeOf(a)) <= ToMs(TimeOf(b))

\* insert x after the elements whose key is <= key(x): the sort is stable
RECURSIVE insert_sorted(_, _, _)
insert_sorted(sorted, x, i) ==
    IF i > Len(sorted) THEN Append(sorted, x)
    ELSE IF key_le(sorted[i], x) THEN insert_sorted(sorted, x, i + 1)
    ELSE SubSeq(sorted, 1, i - 1) \o <<x>> \o SubSeq(sorted, i, Len(sorted))

RECURSIVE sorted_lines(_, _)
sorted_lines(ls, n) ==
    IF n = 0 THEN <<>>
    ELSE insert_sorted(sorted_lines(ls, n - 1), ls[n], 1)

\* a key function that raises ends the run
sort_raises(ls) == \E i \in 1..Len(ls) : TimeOf(ls[i]) = ValueError

-----------------------------------------------------------------------------
(* __main__ *)

NotCalled == <<>>

\* variant: only the start times are looked at
no_phase_start(res) ==
    \A p \in PhaseSet : Get(res, p \o "_start") = None

\* `if not any(result.get(f"{phase}_start") or result.get(f"{phase}_end") ...)`
no_phase_time(res) ==
    \A p \in PhaseSet : Get(res, p \o "_start") = None
                        /\ Get(res, p \o "_end") = None

\* variant: the loop is entered whatever was found
after_discovery_no_exit(order) ==
    [pc |-> "loop", exit_code |-> exit_code,
     printed |-> <<[ev |-> "trace_ids", ids |-> order]>>]

\* print(f"All trace ids: ..."); `if not trace_ids:` print and sys.exit(1)
after_discovery(order) ==
    IF order = <<>>
    THEN [pc |-> "exit", exit_code |-> 1,
          printed |-> <<[ev |-> "trace_ids", ids |-> order],
                        [ev |-> "no_trace_id"]>>]
    ELSE [pc |-> "loop", exit_code |-> exit_code,
          printed |-> <<[ev |-> "trace_ids", ids |-> order]>>]

\* trace_ids = find_trace_ids(...); print; exit 1 when there is none
Discover ==
    /\ pc = "start"
    /\ \E order \in Orders(find_trace_ids(corpus, artifact)) :
       \E next \in {after_discovery(order)} :
        /\ trace_ids' = order
        /\ stdout' = stdout \o next.printed
        /\ pc' = next.pc
        /\ exit_code' = next.exit_code
    /\ UNCHANGED <<corpus, artifact, format, debug, idx, lines, result,
                   debug_status, phase_status, overall, all_results, files>>

\* what parse_timeline prints with --debug when the ca_end rule found
\* nothing; the rules before ca_end in phase_keys (indexer_start .. ca_start)
\* must not have raised
diagnostic_output(ls) ==
    IF /\ debug
       /\ \A i \in 1..7 : single_pair(phase_keys[i], ls) # ValueError
       /\ ca_end_rule(ls) = None
    THEN <<[ev |-> "ca_end_diagnostic"]>> ELSE <<>>

\* one pass of `for trace_id in trace_ids:`
\* variant: the loop prints each document as soon as it is built
loop_json_output_each(results) ==
    <<[ev |-> "json", kind |-> "object", value |-> results[Len(results)]]>>

\* what the JSON branch of the loop body prints once the document is
\* appended to all_results: nothing
loop_json_output(results) == <<>>

ProcessToken ==
    /\ pc = "loop"
    /\ idx < Len(trace_ids)
    /\ \E trace_id \in {trace_ids[idx + 1]} :
       \E ls \in {find_all_lines_by_trace_id(corpus, trace_id)} :
       \E parsed \in {parse_timeline(ls, debug)} :
       \E printed \in {diagnostic_output(ls)} :
        /\ idx' = idx + 1
        /\ lines' = ls
        /\ IF parsed.raised THEN
                \* ValueError out of extract_time: the run ends in a traceback
                /\ pc' = "crash"
                /\ exit_code' = 1
                /\ result' = NotCalled
                /\ debug_status' = NotCalled
                /\ phase_status' = NotCalled
                /\ overall' = NotCalled
                /\ stdout' = stdout \o printed
                /\ UNCHANGED <<all_results, files>>
           ELSE
                /\ result' = parsed.result
                /\ debug_status' = parsed.debug_status
                /\ IF no_phase_time(parsed.result) THEN
                        /\ stdout' = stdout \o printed
                                     \o <<[ev |-> "skipped", trace_id |-> trace_id]>>
                        /\ phase_status' = NotCalled
                        /\ overall' = NotCalled
                        /\ UNCHANGED <<pc, exit_code, all_results, files>>
                   ELSE IF format = "json" THEN
                        /\ all_results' = Append(all_results,
                               generate_json_output(parsed.result,
                                   parsed.debug_status, artifact, trace_id))
                        /\ phase_status' = [p \in PhaseSet |->
                               json_phase_status(parsed.result,
                                                 parsed.debug_status, p)]
                        /\ overall' =
                               [start |-> overall_start_after(parsed.result,
                                                              Len(Phases)),
                                end   |-> overall_end_after(parsed.result,
                                                            Len(Phases))]
                        /\ stdout' = stdout \o printed
                                     \o loop_json_output(all_results')
                        /\ UNCHANGED <<pc, exit_code, files>>
                   ELSE IF debug /\ sort_raises(ls) THEN
                        /\ pc' = "crash"
                        /\ exit_code' = 1
                        /\ stdout' = stdout \o printed
                               \o <<[ev |-> "trace_header", trace_id |-> trace_id]>>
                        /\ phase_status' = NotCalled
                        /\ overall' = NotCalled
                        /\ UNCHANGED <<all_results, files>>
                   ELSE
                        /\ files' = IF debug
                               THEN [f \in DOMAIN files
                                          \cup {"debug_" \o trace_id \o ".log"} |->
                                        IF f = "debug_" \o trace_id \o ".log"
                                        THEN sorted_lines(ls, Len(ls))
                                        ELSE files[f]]
                               ELSE files
                        /\ stdout' = stdout \o printed
                               \o <<[ev |-> "trace_header", trace_id |-> trace_id]>>
                               \o (IF debug
                                   THEN <<[ev |-> "debug_written",
                                           name |-> "debug_" \o trace_id \o ".log"]>>
                                   ELSE <<>>)
                               \o <<[ev |-> "table", trace_id |-> trace_id,
                                     rows |-> show(parsed.result,
                                                   parsed.debug_status)]>>
                        /\ phase_status' = NotCalled
                        /\ overall' = NotCalled
                        /\ UNCHANGED <<pc, exit_code, all_results>>
    /\ UNCHANGED <<corpus, artifact, format, debug, trace_ids>>

\* variant: an empty list prints null
final_json_null_when_empty(results) ==
    IF results = <<>>
    THEN [ev |-> "json", kind |-> "null", value |-> results]
    ELSE IF Len(results) = 1
         THEN [ev |-> "json", kind |-> "object", value |-> results[1]]
         ELSE [ev |-> "json", kind |-> "array", value |-> results]

\* variant: the list is printed whatever its length
final_json_always_array(results) ==
    [ev |-> "json", kind |-> "array", value |-> results]

\* what the final print writes: all_results[0] when the list holds one
\* document, the list otherwise
final_json(results) ==
    IF Len(results) = 1
    THEN [ev |-> "json", kind |-> "object", value |-> results[1]]
    ELSE [ev |-> "json", kind |-> "array", value |-> results]

\* after the loop: `if args.format == "json": ...`, then a normal exit
Finish ==
    /\ pc = "loop"
    /\ idx = Len(trace_ids)
    /\ stdout' = IF format = "json"
                 THEN Append(stdout, final_json(all_results))
                 ELSE stdout
    /\ pc' = "done"
    /\ exit_code' = 0
    /\ UNCHANGED <<corpus, artifact, format, debug, trace_ids, idx, lines,
                   result, debug_status, phase_status, overall, all_results,
                   files>>

Next == Discover \/ ProcessToken \/ Finish

-----------------------------------------------------------------------------
(* the inputs: log trees, arguments *)

\* the longest log tree, in lines
MaxLines == 3

\* every log tree of at most MaxLines lines over a catalogue of lines
Trees(catalogue) == UNION {[1..n -> catalogue] : n \in 0..MaxLines}

InitWith(catalogue, arguments) ==
    /\ corpus \in Trees(catalogue)
    /\ \E a \in arguments : format = a[1] /\ debug = a[2]
    /\ artifact = "foo.jar"
    /\ pc = "start"
    /\ trace_ids = <<>>
    /\ idx = 0
    /\ lines = <<>>
    /\ result = NotCalled
    /\ debug_status = NotCalled
    /\ phase_status = NotCalled
    /\ overall = NotCalled
    /\ all_results = <<>>
    /\ stdout = <<>>
    /\ files = <<>>
    /\ exit_code = -1

Init == InitWith(MainCatalogue, AllArguments)

Spec == Init /\ [][Next]_vars

InitPhases == InitWith(PhaseCatalogue, FocusArguments)

SpecPhases == InitPhases /\ [][Next]_vars

InitFallback == InitWith(FallbackCatalogue, FocusArguments)

SpecFallback == InitFallback /\ [][Next]_vars

InitTwin == InitWith(TwinCatalogue, FocusArguments)

SpecTwin == InitTwin /\ [][Next]_vars

InitTimes == InitWith(TimeCatalogue, FocusArguments)

SpecTimes == InitTimes /\ [][Next]_vars

-----------------------------------------------------------------------------
(* what the properties speak about *)

\* the loop body has run and returned from parse_timeline: `lines`, `result`
\* and `debug_status` are those of the trace id handled last
Parsed == idx > 0 /\ pc # "crash"

\* the loop body went on to generate_json_output for that trace id
JsonCalled == Parsed /\ DOMAIN phase_status = PhaseSet

\* ... or to show
TableShown ==
    /\ Parsed /\ format = "table" /\ stdout # <<>>
    /\ stdout[Len(stdout)].ev = "table"

LastDoc == all_results[Len(all_results)]

LastRows == stdout[Len(stdout)].rows

HasStart(p) == (p \o "_start") \in DOMAIN result

HasEnd(p) == (p \o "_end") \in DOMAIN result

HasTag(p) == (p \o "_end_status") \in DOMAIN result

\* line i of `lines` holds both substrings of a triple and carries a time
Qualifies(pattern, i) ==
    /\ Has(pattern.sub1, lines[i]) /\ Has(pattern.sub2, lines[i])
    /\ IsTime(TimeOf(lines[i]))

QualifyingLines(pattern) == {i \in 1..Len(lines) : Qualifies(pattern, i)}

Max(S) == CHOOSE x \in S : \A y \in S : y <= x

Min(S) == CHOOSE x \in S : \A y \in S : x <= y

\* the triples of a list that have a qualifying line
LiveTriples(patterns) ==
    {k \in 1..Len(patterns) : QualifyingLines(patterns[k]) # {}}

EndRuleFollowsPriority(phase, patterns) ==
    IF LiveTriples(patterns) = {}
    THEN ~HasEnd(phase) /\ ~HasTag(phase)
    ELSE LET k == Min(LiveTriples(patterns))
         IN  /\ HasEnd(phase) /\ HasTag(phase)
             /\ result[phase \o "_end"] =
                    TimeOf(lines[Max(QualifyingLines(patterns[k]))])
             /\ result[phase \o "_end_status"] = patterns[k].status

\* C1: the ca and exposure end rules record the time and status tag of the
\* first triple, in list order, that has a line holding both substrings and
\* a parseable timestamp (of its last such line in collector order), wherever
\* the lines of later triples stand; with no such triple nothing is recorded.
C1_EndRulePriority ==
    Parsed => /\ EndRuleFollowsPriority("ca", ca_end_patterns)
              /\ EndRuleFollowsPriority("exposure", exposure_end_patterns)

\* a DONE line of the ca phase followed, in collector order, by a FAILED or
\* SKIP line: DONE is recorded with the DONE line's time
C1_Witness ==
    /\ Parsed
    /\ \E i, j \in 1..Len(lines) :
        /\ i < j
        /\ Qualifies(ca_end_patterns[1], i)
        /\ \E k \in 2..Len(ca_end_patterns) : Qualifies(ca_end_patterns[k], j)
        /\ HasTag("ca") /\ result["ca_end_status"] = "DONE"
        /\ result["ca_end"] = TimeOf(lines[i])

\* the status the tag of a phase with a start and an end stands for
TagStatus(p) ==
    IF ~HasTag(p) THEN "DONE"
    ELSE CASE result[p \o "_end_status"] = "FAILED" -> "FAILED"
           [] result[p \o "_end_status"] = "SKIP" -> "NOT_SUPPORTED"
           [] result[p \o "_end_status"] = "ABORTED" -> "ABORTED"
           [] OTHER -> "DONE"

\* C2: a phase with a start and an end has status FAILED, NOT_SUPPORTED or
\* ABORTED for the tags FAILED, SKIP, ABORTED and DONE otherwise, whatever
\* its fallback text.
C2_TaggedStatus ==
    JsonCalled =>
        \A p \in PhaseSet :
            HasStart(p) /\ HasEnd(p) => phase_status[p] = TagStatus(p)

\* a ca phase with a start, ended by a DONE line and reported DONE, whose
\* fallback text (a FAILED line) would have said FAILED
C2_Witness ==
    /\ JsonCalled
    /\ HasStart("ca") /\ HasEnd("ca") /\ HasTag("ca")
    /\ result["ca_end_status"] = "DONE"
    /\ phase_status["ca"] = "DONE"
    /\ Has("fail", LowerOf(debug_status["ca"]))

\* C4: a phase without a start timestamp has status NOT_STARTED, whatever
\* its end timestamp, status tag and fallback text.
C4_NoStartNotStarted ==
    JsonCalled =>
        \A p \in PhaseSet : ~HasStart(p) => phase_status[p] = "NOT_STARTED"

\* a ca phase without a start, with an end tagged FAILED and a fallback
\* text that says fail, reported NOT_STARTED
C4_Witness ==
    /\ JsonCalled
    /\ ~HasStart("ca") /\ HasEnd("ca") /\ HasTag("ca")
    /\ result["ca_end_status"] = "FAILED"
    /\ Has("fail", LowerOf(debug_status["ca"]))
    /\ phase_status["ca"] = "NOT_STARTED"
    /\ LastDoc.details.contextual_analysis.status = "NOT_STARTED"

\* the decision the precedence FAILED > WARNING > ABORTED > INCOMPLETE
\* makes on a fallback text
PrecedenceDecision(text) ==
    LET t == LowerOf(text)
        f == Has("fail", t)
        w == Has("warn", t) \/ Has("skip", t) \/ Has("not found", t)
        a == Has("abort", t)
    IN  CASE f -> "FAILED"
          [] ~f /\ w -> "WARNING"
          [] ~f /\ ~w /\ a -> "ABORTED"
          [] ~f /\ ~w /\ ~a -> "INCOMPLETE"

\* C3: a phase with a start and no end gets its status from the lower-cased
\* fallback text with the precedence FAILED > WARNING > ABORTED > INCOMPLETE,
\* in the JSON document (determine_status) and in the table (show) alike.
C3_FallbackPrecedence ==
    /\ JsonCalled =>
        \A p \in PhaseSet :
            HasStart(p) /\ ~HasEnd(p) =>
                phase_status[p] = PrecedenceDecision(debug_status[p])
    /\ TableShown =>
        \A i \in 1..Len(Phases) :
            HasStart(Phases[i]) /\ ~HasEnd(Phases[i]) =>
                LastRows[i].state = PrecedenceDecision(debug_status[Phases[i]])

\* an indexer phase with a start and no end whose fallback text holds both
\* "warn" and "abort": WARNING
C3_Witness ==
    /\ JsonCalled
    /\ HasStart("indexer") /\ ~HasEnd("indexer")
    /\ Has("warn", LowerOf(debug_status["indexer"]))
    /\ Has("abort", LowerOf(debug_status["indexer"]))
    /\ phase_status["indexer"] = "WARNING"

\* C5: after an indexer start line and with no indexer end line, a later line
\* holding both "index" and "warn" makes the indexer status WARNING.  (Read
\* in the claim's favour: that line is the last collected line and holds no
\* "fail".)
C5_IndexWarnIsWarning ==
    ( /\ JsonCalled
      /\ HasStart("indexer") /\ ~HasEnd("indexer")
      /\ Len(lines) >= 2
      /\ \E i \in 1..(Len(lines) - 1) :
            /\ BothIn("index_worker", "processing m", lines[i])
            /\ IsTime(TimeOf(lines[i]))
      /\ Has("index", LowerOf(lines[Len(lines)]))
      /\ Has("warn", LowerOf(lines[Len(lines)]))
      /\ ~Has("fail", LowerOf(lines[Len(lines)])) )
    => phase_status["indexer"] = "WARNING"

AnyStart == \E p \in PhaseSet : HasStart(p)

AnyEnd == \E p \in PhaseSet : HasEnd(p)

\* C8 as claimed: with an overall start and no overall end the overall status
\* comes out of the fallback path, i.e. it is the fallback decision on the
\* fallback text of a started phase (which makes FAILED, WARNING and ABORTED
\* attainable).
C8_OverallThroughFallback ==
    (JsonCalled /\ AnyStart /\ ~AnyEnd) =>
        LastDoc.overall.status \in
            {PrecedenceDecision(debug_status[p]) :
                p \in {q \in PhaseSet : HasStart(q)}}

\* C8 as amended: the overall status is NOT_STARTED without any phase start,
\* INCOMPLETE with a start and no phase end (no fallback text reaches the
\* rule), DONE otherwise; never FAILED, WARNING, ABORTED or NOT_SUPPORTED.
\* The violations block repeats it.
C8_OverallStatus ==
    JsonCalled =>
        /\ LastDoc.overall.status =
              IF ~AnyStart THEN "NOT_STARTED"
              ELSE IF ~AnyEnd THEN "INCOMPLETE" ELSE "DONE"
        /\ LastDoc.details.violations.status = LastDoc.overall.status

\* a run whose only started phase is FAILED through its fallback text, with
\* no end anywhere: overall INCOMPLETE
C8_Witness ==
    /\ JsonCalled
    /\ AnyStart /\ ~AnyEnd
    /\ \E p \in PhaseSet : HasStart(p) /\ phase_status[p] = "FAILED"
    /\ \A p \in PhaseSet : HasStart(p) => phase_status[p] = "FAILED"
    /\ LastDoc.overall.status = "INCOMPLETE"

\* the collected lines that hold both substrings and carry a time
TimedLines(sub1, sub2) ==
    {i \in 1..Len(lines) :
        BothIn(sub1, sub2, lines[i]) /\ IsTime(TimeOf(lines[i]))}

PypiLines ==
    TimedLines("cve_applicability_service", "Package type Pypi is not supported")

CaTransitionLines ==
    TimedLines("contextual_analysis", "from status: SCANNING to status: DONE")
    \cup TimedLines("contextual_analysis", "from status: SCANNING to status: FAILED")

\* C6 as claimed: whenever the collected lines include a line holding both
\* 'cve_applicability_service' and 'Package type Pypi is not supported', the
\* ca status tag is SKIP and the ca status is NOT_SUPPORTED.
C6_PypiLineSkips ==
    (JsonCalled /\ \E i \in 1..Len(lines) :
        BothIn("cve_applicability_service",
               "Package type Pypi is not supported", lines[i]))
    => /\ HasTag("ca") /\ result["ca_end_status"] = "SKIP"
       /\ phase_status["ca"] = "NOT_SUPPORTED"

\* C6 as amended: when such a line carries a parseable timestamp and no
\* timestamped line matches the contextual_analysis DONE or FAILED triple, the
\* ca status tag is SKIP; the ca status is then NOT_SUPPORTED if the ca phase
\* has a start timestamp, and NOT_STARTED otherwise.
C6_PypiSkipUnlessTransition ==
    (Parsed /\ PypiLines # {} /\ CaTransitionLines = {})
    => /\ HasEnd("ca") /\ HasTag("ca") /\ result["ca_end_status"] = "SKIP"
       /\ JsonCalled =>
            phase_status["ca"] =
                IF HasStart("ca") THEN "NOT_SUPPORTED" ELSE "NOT_STARTED"

\* a ca start and a timestamped Pypi line: SKIP, NOT_SUPPORTED
C6_Witness ==
    /\ JsonCalled
    /\ PypiLines # {} /\ CaTransitionLines = {}
    /\ HasStart("ca")
    /\ result["ca_end_status"] = "SKIP"
    /\ phase_status["ca"] = "NOT_SUPPORTED"
    /\ LastDoc.details.contextual_analysis.status = "NOT_SUPPORTED"

IndexerStartLines == TimedLines("index_worker", "processing m")

IndexerEndLines ==
    TimedLines("index_worker", "has completed to process message")

\* the whole minutes and seconds of d milliseconds, behind the whole hours
\* when there are any
MinutesSeconds(d) ==
    LET secs == d \div 1000
        tail == Fmt02d((secs \div 60) % 60) \o ":" \o Fmt02d(secs % 60)
    IN  IF secs >= 3600 THEN Fmt02d(secs \div 3600) \o ":" \o tail ELSE tail

\* C7: with one timestamped indexer start line (time t1) and one timestamped
\* indexer end line (time t2 >= t1) among the collected lines, parse_timeline
\* yields indexer_start = t1 and indexer_end = t2, and the duration string is
\* the whole minutes and seconds of t2 - t1 (00:05 for 10:00:00.123 to
\* 10:00:05.456).
C7_IndexerWindow ==
    (Parsed /\ Cardinality(IndexerStartLines) = 1
            /\ Cardinality(IndexerEndLines) = 1)
    => \A i \in IndexerStartLines : \A j \in IndexerEndLines :
        LET t1 == TimeOf(lines[i])
            t2 == TimeOf(lines[j])
        IN  ToMs(t2) >= ToMs(t1) =>
                /\ HasStart("indexer") /\ result["indexer_start"] = t1
                /\ HasEnd("indexer") /\ result["indexer_end"] = t2
                /\ JsonCalled =>
                    LastDoc.details.sca.duration =
                        MinutesSeconds(ToMs(t2) - ToMs(t1))
                /\ TableShown =>
                    /\ LastRows[1].start = isoformat(t1, " ")
                    /\ LastRows[1].end = isoformat(t2, " ")

\* the scenario of the claim: 10:00:00.123 to 10:00:05.456, "00:05"
C7_Witness ==
    /\ JsonCalled
    /\ Cardinality(IndexerStartLines) = 1 /\ Cardinality(IndexerEndLines) = 1
    /\ HasStart("indexer") /\ HasEnd("indexer")
    /\ result["indexer_start"] =
          [kind |-> "datetime", year |-> 2024, month |-> 1, day |-> 1,
           hour |-> 10, minute |-> 0, second |-> 0, ms |-> 123]
    /\ result["indexer_end"] =
          [kind |-> "datetime", year |-> 2024, month |-> 1, day |-> 1,
           hour |-> 10, minute |-> 0, second |-> 5, ms |-> 456]
    /\ LastDoc.details.sca.duration = "00:05"

StartTimes == {ToMs(result[p \o "_start"]) : p \in {q \in PhaseSet : HasStart(q)}}

EndTimes == {ToMs(result[p \o "_end"]) : p \in {q \in PhaseSet : HasEnd(q)}}

\* C9: in generate_json_output the overall start is the minimum of the
\* present phase starts and the overall end the maximum of the present phase
\* ends, each absent exactly when no phase has one.
C9_OverallMinMax ==
    JsonCalled =>
        /\ (overall.start = None) <=> (StartTimes = {})
        /\ (overall.end = None) <=> (EndTimes = {})
        /\ StartTimes # {} =>
            /\ \E p \in PhaseSet :
                    HasStart(p) /\ overall.start = result[p \o "_start"]
            /\ ToMs(overall.start) = Min(StartTimes)
        /\ EndTimes # {} =>
            /\ \E p \in PhaseSet :
                    HasEnd(p) /\ overall.end = result[p \o "_end"]
            /\ ToMs(overall.end) = Max(EndTimes)
            /\ LastDoc.overall.time = json_time(overall.end)

\* the ca phase, earlier in the loop, starts after the exposure phase: the
\* overall start is the exposure start; an end is present too
C9_Witness ==
    /\ JsonCalled
    /\ HasStart("ca") /\ HasStart("exposure")
    /\ ToMs(result["exposure_start"]) < ToMs(result["ca_start"])
    /\ overall.start = result["exposure_start"]
    /\ EndTimes # {} /\ ToMs(overall.end) = Max(EndTimes)

\* the discovered tokens that were not skipped
Resolved ==
    {trace_ids[i] : i \in 1..Len(trace_ids)}
    \ {stdout[k].trace_id :
          k \in {n \in 1..Len(stdout) : stdout[n].ev = "skipped"}}

\* C10: in JSON mode, when exactly one token is resolved (not skipped) the
\* emitted JSON value is that token's document itself, not a one-element
\* array; with two or more resolved tokens it is an array holding exactly one
\* document per resolved token.
C10_JsonShape ==
    (pc = "done" /\ format = "json") =>
        LET out == stdout[Len(stdout)]
        IN  /\ out.ev = "json"
            /\ Cardinality(Resolved) = 1 =>
                /\ out.kind = "object"
                /\ out.value.traceId \in Resolved
                /\ out.value = all_results[1]
            /\ Cardinality(Resolved) >= 2 =>
                /\ out.kind = "array"
                /\ Len(out.value) = Cardinality(Resolved)
                /\ {out.value[i].traceId : i \in 1..Len(out.value)} = Resolved

\* two tokens discovered, one of them skipped: the value is the document of
\* the other
C10_Witness ==
    /\ pc = "done" /\ format = "json"
    /\ Len(trace_ids) = 2 /\ Cardinality(Resolved) = 1
    /\ stdout[Len(stdout)].kind = "object"
    /\ stdout[Len(stdout)].value.traceId \in Resolved

\* the 16-character lower-case hexadecimal strings that stand in square
\* brackets in a text
IsHex16(w) == Len(w) = 16 /\ \A i \in 1..16 : Char(w, i) \in HexLower

BracketedHex16(text) ==
    {w \in {SubSeq(text, i, i + 15) : i \in 1..(Len(text) - 15)} :
        IsHex16(w) /\ Has("[" \o w \o "]", text)}

\* the lines of the *.log files of the tree
LogEntries ==
    {corpus[i] : i \in {j \in 1..Len(corpus) : EndsWith(corpus[j].file, ".log")}}

TraceIdSet == {trace_ids[i] : i \in 1..Len(trace_ids)}

\* C11: find_trace_ids returns exactly the 16-character lower-case hex strings
\* that stand in square brackets on some line of some *.log file that holds
\* the artifact; a token that occurs only on lines without the artifact is
\* not returned.
C11_TraceIdsOfArtifact ==
    pc # "start" =>
        /\ TraceIdSet =
              UNION {BracketedHex16(e.text) :
                        e \in {x \in LogEntries : Has(artifact, x.text)}}
        /\ Len(trace_ids) = Cardinality(TraceIdSet)

\* foo.jar on a line with token A, bar.jar on a line with token B: {A}
C11_Witness ==
    /\ pc # "start"
    /\ \E i, j \in 1..Len(corpus) :
        /\ Has("[" \o TokA \o "]", corpus[i].text)
        /\ Has("foo.jar", corpus[i].text)
        /\ Has("[" \o TokB \o "]", corpus[j].text)
        /\ Has("bar.jar", corpus[j].text)
    /\ trace_ids = <<TokA>>

ReportEvents == {"skipped", "trace_header", "debug_written", "table", "json",
                 "ca_end_diagnostic"}

\* C12: when discovery finds no token the invocation reports it and exits
\* with code 1; no line collection, reconstruction or report has happened.
C12_NoTokenExits ==
    (pc # "start" /\ trace_ids = <<>>) =>
        /\ pc = "exit" /\ exit_code = 1
        /\ stdout[Len(stdout)].ev = "no_trace_id"
        /\ \A k \in 1..Len(stdout) : stdout[k].ev \notin ReportEvents
        /\ idx = 0 /\ lines = <<>>
        /\ result = <<>> /\ debug_status = <<>>
        /\ all_results = <<>> /\ files = <<>>

\* a tree with lines, none of which gives a token for the artifact
C12_Witness ==
    /\ pc = "exit" /\ exit_code = 1
    /\ Len(corpus) >= 2
    /\ \E i \in 1..Len(corpus) : Has("bar.jar", corpus[i].text)
    /\ trace_ids = <<>>
    /\ stdout[Len(stdout)].ev = "no_trace_id"

NoPhaseEvidence == \A p \in PhaseSet : ~HasStart(p) /\ ~HasEnd(p)

\* the trace ids a table or a JSON document was produced for
Reported ==
    IF format = "json"
    THEN {all_results[i].traceId : i \in 1..Len(all_results)}
    ELSE {stdout[k].trace_id :
            k \in {n \in 1..Len(stdout) : stdout[n].ev = "table"}}

\* C13: a token without a start or end time in any phase is skipped with a
\* message and gets no table or document; the run goes on, every other token
\* is reported, and the run ends with exit status 0.
C13_SkipIsLocal ==
    /\ (Parsed /\ pc = "loop") =>
        /\ NoPhaseEvidence <=>
              stdout[Len(stdout)] = [ev |-> "skipped", trace_id |-> trace_ids[idx]]
        /\ NoPhaseEvidence => trace_ids[idx] \notin Reported
        /\ exit_code = -1
    /\ pc = "done" =>
        /\ exit_code = 0 /\ idx = Len(trace_ids)
        /\ Reported = Resolved
        /\ format = "json" => Len(all_results) = Cardinality(Resolved)

\* the first of two tokens is skipped, the second gets its table
C13_Witness ==
    /\ pc = "done" /\ exit_code = 0 /\ format = "table"
    /\ Len(trace_ids) = 2
    /\ trace_ids[1] \notin Resolved
    /\ Reported = {trace_ids[2]}

\* the allow-list of subsystem keywords
AllowList == {"index", "persist", "analysis", "ca", "exposure", "scan",
              "worker", "cve_applicability", "exposures_service"}

KeptForTrace(entry) ==
    /\ EndsWith(entry.file, ".log")
    /\ Has("[" \o trace_ids[idx] \o "]", entry.text)
    /\ \E kw \in AllowList : Has(kw, entry.text)

Kept == SelectSeq(corpus, KeptForTrace)

\* C16: find_all_lines_by_trace_id returns, in traversal order, exactly the
\* stripped lines of the *.log files that hold the bracketed token and an
\* allow-list keyword; a line with the token and no keyword is not returned.
C16_CollectedLines ==
    idx > 0 =>
        /\ Len(lines) = Len(Kept)
        /\ \A i \in 1..Len(lines) : lines[i] = StripOf(Kept[i].text)

\* a line with the token and no keyword is left out, a line with blanks
\* around it comes back stripped
C16_Witness ==
    /\ idx > 0
    /\ \E i \in 1..Len(corpus) :
        /\ Has("[" \o trace_ids[idx] \o "]", corpus[i].text)
        /\ ~KeptForTrace(corpus[i])
        /\ EndsWith(corpus[i].file, ".log")
    /\ \E i \in 1..Len(lines) : lines[i] # Kept[i].text

\* the k-th digit behind the dot at position 20, 0 where the digits have
\* ended before it
FractionDigit(line, k) ==
    IF \A j \in 21..(20 + k) : Char(line, j) \in Digits
    THEN DigitVal[Char(line, 20 + k)] ELSE 0

\* the first three fractional digits, padded with zeros on the right
FirstThreeDigits(line) ==
    100 * FractionDigit(line, 1) + 10 * FractionDigit(line, 2)
    + FractionDigit(line, 3)

\* the date and time a well-formed prefix spells, with that millisecond
SpelledTime(line) ==
    [kind |-> "datetime", year |-> ToInt(line, 1, 4),
     month |-> ToInt(line, 6, 7), day |-> ToInt(line, 9, 10),
     hour |-> ToInt(line, 12, 13), minute |-> ToInt(line, 15, 16),
     second |-> ToInt(line, 18, 19), ms |-> FirstThreeDigits(line)]

\* the indexer start lines whose prefix has the pattern's shape
ShapedStartLines ==
    {i \in 1..Len(lines) :
        /\ BothIn("index_worker", "processing m", lines[i])
        /\ TimeRegexMatches(lines[i])}

\* the same string as str(datetime) prints it: microsecond = ms * 1000
SpelledCell(line) ==
    SubSeq(line, 1, 10) \o " " \o SubSeq(line, 12, 19)
    \o (IF FirstThreeDigits(line) = 0 THEN ""
        ELSE "." \o Fmt03d(FirstThreeDigits(line)) \o "000")

\* C14: for a line that begins with YYYY-MM-DDTHH:MM:SS.<digits>Z,
\* extract_time returns those date and time fields with a millisecond equal
\* to the first three fractional digits, padded with zeros on the right and
\* cut after the third (microsecond = that number * 1000).  Read on the time
\* the indexer start rule takes from the first such line.
C14_MillisecondDigits ==
    (Parsed /\ ShapedStartLines # {}) =>
        /\ HasStart("indexer")
        /\ result["indexer_start"] = SpelledTime(lines[Min(ShapedStartLines)])
        /\ TableShown =>
              LastRows[1].start = SpelledCell(lines[Min(ShapedStartLines)])

\* fractions of one digit and of more than three digits
C14_Witness ==
    /\ TableShown
    /\ HasStart("indexer")
    /\ \/ /\ Has("00:00.5Z", lines[Min(ShapedStartLines)])
          /\ result["indexer_start"].ms = 500
          /\ Has("10:00:00.500000", LastRows[1].start)
       \/ /\ Has("00:01.123456Z", lines[Min(ShapedStartLines)])
          /\ result["indexer_start"].ms = 123
          /\ Has("10:00:01.123000", LastRows[1].start)

\* C15: extract_time returns a timestamp or absence and never faults: a
\* prefix that cannot be turned into a timestamp is treated as absence and
\* the line is skipped, the run does not stop.
C15_NeverFaults == pc # "crash"

\* the phases generate_json_output writes a block for, and their blocks in
\* the document of the trace id handled last
JsonPhases == {"indexer", "ca", "exposure"}

PhaseBlock(p) ==
    CASE p = "indexer" -> LastDoc.details.sca
      [] p = "ca" -> LastDoc.details.contextual_analysis
      [] p = "exposure" -> LastDoc.details.exposures

\* end - start of a phase that has both, in milliseconds
Interval(p) == ToMs(result[p \o "_end"]) - ToMs(result[p \o "_start"])

\* a duration string as a non-negative interval gives it: digits in pairs
\* with colons between, MM:SS or HH:MM:SS
IsClock(str) ==
    /\ Len(str) \in {5, 8}
    /\ \A i \in 1..Len(str) :
        IF i % 3 = 0 THEN Char(str, i) = ":" ELSE Char(str, i) \in Digits

\* C17: a phase whose end is earlier than its start is surfaced: what the
\* JSON document reports for it is never status DONE with a duration that
\* reads as an ordinary non-negative one.
C17_NegativeSurfaced ==
    JsonCalled =>
        \A p \in JsonPhases :
            (HasStart(p) /\ HasEnd(p) /\ Interval(p) < 0) =>
                ~(PhaseBlock(p).status = "DONE"
                  /\ IsClock(PhaseBlock(p).duration))

\* C18: with both timestamps format_duration gives "00:00" for a zero-length
\* interval, MM:SS (whole minutes and seconds, no hours segment) for
\* 0 <= d < 1 hour and HH:MM:SS from one hour on; "0" only when a timestamp
\* is absent.
C18_DurationShape ==
    JsonCalled =>
        \A p \in JsonPhases :
            /\ (PhaseBlock(p).duration = "0") <=> ~(HasStart(p) /\ HasEnd(p))
            /\ (HasStart(p) /\ HasEnd(p) /\ Interval(p) = 0) =>
                    PhaseBlock(p).duration = "00:00"
            /\ (HasStart(p) /\ HasEnd(p) /\ Interval(p) >= 0
                    /\ Interval(p) < 3600000) =>
                    PhaseBlock(p).duration =
                        Fmt02d(Interval(p) \div 60000) \o ":"
                        \o Fmt02d((Interval(p) \div 1000) % 60)
            /\ (HasStart(p) /\ HasEnd(p) /\ Interval(p) >= 3600000) =>
                    PhaseBlock(p).duration =
                        Fmt02d(Interval(p) \div 3600000) \o ":"
                        \o Fmt02d((Interval(p) \div 60000) % 60) \o ":"
                        \o Fmt02d((Interval(p) \div 1000) % 60)

\* a ca phase that ends in the millisecond it starts in: "00:00"; an indexer
\* phase of more than an hour beside it
C18_Witness ==
    /\ JsonCalled
    /\ HasStart("ca") /\ HasEnd("ca") /\ Interval("ca") = 0
    /\ PhaseBlock("ca").duration = "00:00"
    /\ ~HasStart("indexer") /\ PhaseBlock("indexer").duration = "0"

\* the name of the debug file of the trace id handled last
DebugFileName == "debug_" \o trace_ids[idx] \o ".log"

\* a sequence ordered by parsed timestamp, the lines without one first
TimeOrdered(ls) ==
    \A i, j \in 1..Len(ls) :
        i < j => \/ TimeOf(ls[i]) = None
                 \/ /\ TimeOf(ls[j]) # None
                    /\ ToMs(TimeOf(ls[i])) <= ToMs(TimeOf(ls[j]))

\* C19: with --debug every processed (not skipped) token has its file
\* debug_<token>.log holding exactly the token's collected lines, ordered by
\* parsed timestamp with the lines without a timestamp first, in table mode
\* and in JSON mode.
C19_DebugFilePerToken ==
    (Parsed /\ debug /\ ~NoPhaseEvidence) =>
        /\ DebugFileName \in DOMAIN files
        /\ Len(files[DebugFileName]) = Len(lines)
        /\ {files[DebugFileName][i] : i \in 1..Len(lines)}
               = {lines[i] : i \in 1..Len(lines)}
        /\ TimeOrdered(files[DebugFileName])

\* the documents a printed JSON value holds
JsonDocs(event) ==
    IF event.kind = "object" THEN {event.value}
    ELSE {event.value[i] : i \in 1..Len(event.value)}

\* the report of trace id t (its table, or its JSON document) is on stdout
Emitted(t) ==
    \E k \in 1..Len(stdout) :
        \/ stdout[k].ev = "table" /\ stdout[k].trace_id = t
        \/ stdout[k].ev = "json"
           /\ \E doc \in JsonDocs(stdout[k]) : doc.traceId = t

\* the positions of stdout holding a printed JSON value
JsonEvents == {k \in 1..Len(stdout) : stdout[k].ev = "json"}

\* C20 as stated: the report of each processed token is emitted before line
\* collection for the next token begins, in table mode and in JSON mode.
C20_IncrementalOutput ==
    (Parsed /\ pc = "loop" /\ idx < Len(trace_ids) /\ ~NoPhaseEvidence) =>
        Emitted(trace_ids[idx])

\* C20 amended: tokens are handled one after another; in table mode the table
\* of a processed token is printed before collection for the next token
\* begins; in JSON mode the token's document is appended to all_results
\* before the next token and nothing of it is printed inside the loop: the
\* documents are printed once, together, after the last token.
C20_SequentialReports ==
    /\ (Parsed /\ pc = "loop" /\ ~NoPhaseEvidence) =>
        IF format = "table"
        THEN stdout[Len(stdout)].ev = "table"
             /\ stdout[Len(stdout)].trace_id = trace_ids[idx]
        ELSE all_results # <<>> /\ LastDoc.traceId = trace_ids[idx]
    /\ (format = "json" /\ pc = "loop") => JsonEvents = {}
    /\ (format = "json" /\ pc = "done") =>
        /\ JsonEvents = {Len(stdout)}
        /\ {doc.traceId : doc \in JsonDocs(stdout[Len(stdout)])} = Resolved
    /\ \A i, j \in 1..Len(all_results) :
        i < j => \E m, n \in 1..idx :
                    /\ m < n
                    /\ trace_ids[m] = all_results[i].traceId
                    /\ trace_ids[n] = all_results[j].traceId

\* JSON mode between two tokens: the first token's document is built and
\* nothing of it is printed yet
C20_Witness ==
    /\ format = "json" /\ pc = "loop" /\ idx = 1 /\ Len(trace_ids) = 2
    /\ ~NoPhaseEvidence
    /\ Len(all_results) = 1 /\ LastDoc.traceId = trace_ids[1]
    /\ ~Emitted(trace_ids[1])

\* what the corpus alone holds for the trace id handled last: its kept
\* lines, stripped, in file order
OwnLines == [i \in 1..Len(Kept) |-> StripOf(Kept[i].text)]

\* C21: the PipelineRun of a token (phase timestamps, status tags, fallback
\* texts) is a function of the corpus and of that token: whichever tokens
\* were handled before it, and in whichever order, it is what parse_timeline
\* gives for the token's own lines.
C21_RunDependsOnTokenOnly ==
    Parsed =>
        \E own \in {parse_timeline(OwnLines, debug)} :
            /\ ~own.raised
            /\ lines = OwnLines
            /\ result = own.result
            /\ debug_status = own.debug_status

\* the second of two tokens, both with phase evidence of their own, in
\* either order of discovery
C21_Witness ==
    /\ Parsed /\ idx = 2 /\ Len(trace_ids) = 2
    /\ Resolved = {TokA, TokB}
    /\ trace_ids[2] = TokA
    /\ HasStart("indexer") /\ HasEnd("indexer")

\* what src/scan-status-timeline computes for the lines of the trace id
\* handled last, and the rows its table printer (the same function body as
\* show in table mode) gives for it
Twin == scan_status_parse_timeline(lines, debug)

\* the keys whose rules differ between the two phase_keys tables
TwinKeys == {"indexer_start", "analysis_start"}

\* the substrings of the single-pair rule of key k in a phase_keys table
RuleOf(keys, k) == keys[CHOOSE i \in 1..Len(keys) : keys[i].key = k]

\* the first line of `lines` the rule of key k in the table can take
FirstTimed(keys, k) ==
    Min(TimedLines(RuleOf(keys, k).sub1, RuleOf(keys, k).sub2) \cup {Len(lines) + 1})

C23_EndsInTwoWays ==
    \/ pc \in {"start", "loop"}
    \/ /\ pc = "exit" /\ exit_code = 1 /\ trace_ids = <<>>
    \/ /\ pc = "done" /\ exit_code = 0
       /\ idx = Len(trace_ids)
       /\ TraceIdSet = Reported \cup (TraceIdSet \ Resolved)

\* the lines a single-pair rule can take: both substrings and a time
RuleLines(rule) == TimedLines(rule.sub1, rule.sub2)

\* C24: a start rule of phase_keys takes the time of the first line in
\* collector order that holds both substrings and has a time, an end rule
\* that of the last one; a line with both substrings and no time settles
\* nothing, and a rule no such line exists for sets no key.
C24_ScanDirection ==
    Parsed =>
        \A i \in 1..Len(phase_keys) :
            \E S \in {RuleLines(phase_keys[i])} :
                /\ (S = {}) <=> (phase_keys[i].key \notin DOMAIN result)
                /\ S # {} =>
                    result[phase_keys[i].key] =
                        TimeOf(lines[IF EndsWith(phase_keys[i].key, "_end")
                                     THEN Max(S) ELSE Min(S)])

\* two indexer end lines with different times and then one without a time:
\* the end is the time of the second line
C24_Witness ==
    /\ Parsed /\ Len(lines) = 3
    /\ IndexerEndLines = {1, 2}
    /\ BothIn("index_worker", "has completed to process message", lines[3])
    /\ TimeOf(lines[3]) = None
    /\ TimeOf(lines[1]) # TimeOf(lines[2])
    /\ HasEnd("indexer") /\ result["indexer_end"] = TimeOf(lines[2])

\* the values a status tag can take
StatusTags == {"DONE", "FAILED", "SKIP", "ABORTED"}

\* C25: in every result of parse_timeline the status tag of a phase is
\* present exactly when the phase is ca or exposure and its end is present;
\* it is one of DONE, FAILED, SKIP, ABORTED; the indexer, persist and
\* analysis phases never carry one.
C25_TagWithPatternEnd ==
    Parsed =>
        \A p \in PhaseSet :
            /\ HasTag(p) <=> (p \in {"ca", "exposure"} /\ HasEnd(p))
            /\ HasTag(p) => result[p \o "_end_status"] \in StatusTags

\* an indexer end without a tag beside an exposure end tagged by the
\* job-failure triple, and no ca end
C25_Witness ==
    /\ Parsed
    /\ HasEnd("indexer") /\ ~HasTag("indexer")
    /\ HasEnd("exposure") /\ HasTag("exposure")
    /\ result["exposure_end_status"] = "FAILED"
    /\ ~HasEnd("ca") /\ ~HasTag("ca")

\* the words that make a line suspicious
SuspiciousWords == {"fail", "error", "warn", "skip", "missing", "retry"}

\* the lines the fallback scan of a phase can pick: the phase name and a
\* suspicious word, whatever the case
SuspiciousLines(p) ==
    {i \in 1..Len(lines) :
        /\ Has(p, LowerOf(lines[i]))
        /\ \E w \in SuspiciousWords : Has(w, LowerOf(lines[i]))}

\* C26: the fallback text of a phase is taken from the last line in
\* collector order that holds the phase name and a suspicious word,
\* case-insensitively; it is the literal INCOMPLETE when there is none.
C26_LastSuspiciousLine ==
    Parsed =>
        \A p \in PhaseSet :
            \E S \in {SuspiciousLines(p)} :
                debug_status[p] =
                    IF S = {} THEN "INCOMPLETE"
                    ELSE Tail_n(StripOf(lines[Max(S)]), 120)

\* two suspicious indexer lines, the later one in capitals: it is the one
\* taken; no line for the persist phase
C26_Witness ==
    /\ Parsed /\ Len(lines) = 3
    /\ {2, 3} \subseteq SuspiciousLines("indexer")
    /\ lines[3] # LowerOf(lines[3])
    /\ ~Has("indexer", lines[3])
    /\ lines[2] # lines[3]
    /\ debug_status["indexer"] = lines[3]
    /\ debug_status["persist"] = "INCOMPLETE"

\* the lines that hold the first substring of a ca_end triple
CaFirstSubstringLines ==
    {i \in 1..Len(lines) :
        \E k \in 1..Len(ca_end_patterns) : Has(ca_end_patterns[k].sub1, lines[i])}

\* C27: the debug flag does not influence reconstruction: parse_timeline
\* gives the same timestamps, status tags and fallback texts with
\* debug_mode on and off, and the run holds these; the diagnostic pass after
\* a ca_end rule that found nothing adds no end and no tag.
C27_DebugDoesNotInfluence ==
    Parsed =>
        \E on \in {parse_timeline(lines, TRUE)} :
            /\ on = parse_timeline(lines, FALSE)
            /\ ~on.raised
            /\ result = on.result
            /\ debug_status = on.debug_status
            /\ (\A k \in 1..Len(ca_end_patterns) :
                    TimedLines(ca_end_patterns[k].sub1,
                               ca_end_patterns[k].sub2) = {})
               => ~HasEnd("ca") /\ ~HasTag("ca")

\* with --debug the diagnostic pass has run over a ca start line and a
\* transition line without a time, and the result has no ca end
C27_Witness ==
    /\ Parsed /\ debug
    /\ \E k \in 1..Len(stdout) : stdout[k].ev = "ca_end_diagnostic"
    /\ HasStart("ca")
    /\ \E i \in CaFirstSubstringLines :
        /\ Has("from status: SCANNING to status: DONE", lines[i])
        /\ TimeOf(lines[i]) = None
    /\ ~HasEnd("ca") /\ ~HasTag("ca")

\* C28: the overall status of the JSON document is DONE exactly when some
\* phase has a start and some phase, possibly another one, has an end,
\* whatever the status tags and fallback texts are; the violations block
\* repeats it.
C28_OverallDoneWhen ==
    JsonCalled =>
        /\ (LastDoc.overall.status = "DONE") <=>
              /\ \E p \in PhaseSet : HasStart(p)
              /\ \E q \in PhaseSet : HasEnd(q)
        /\ (LastDoc.details.violations.status = "DONE") <=>
              (LastDoc.overall.status = "DONE")

\* overall DONE with no phase DONE: the only start and the only ends belong
\* to different phases, one of them tagged FAILED
C28_Witness ==
    /\ JsonCalled
    /\ LastDoc.overall.status = "DONE"
    /\ LastDoc.details.violations.status = "DONE"
    /\ \A p \in PhaseSet : ~(HasStart(p) /\ HasEnd(p))
    /\ \A p \in PhaseSet : phase_status[p] \in {"INCOMPLETE", "NOT_STARTED"}
    /\ HasTag("ca") /\ result["ca_end_status"] = "FAILED"

\* the length a fallback text is cut to
TailLength == 120

\* the words status inference looks for in a fallback text
StatusWords == {"fail", "warn", "skip", "not found", "abort"}

\* line i holds a status word, and none in its last 120 characters
WordsBeforeTailOnly(i) ==
    /\ \E w \in StatusWords : Has(w, LowerOf(lines[i]))
    /\ \A w \in StatusWords :
        ~Has(w, LowerOf(Tail_n(StripOf(lines[i]), TailLength)))

\* C29: a fallback text is at most the last 120 characters of the selected
\* line, and the status of a phase with a start and no end is inferred from
\* that tail alone: when the selected line holds its status words only
\* before its last 120 characters, the phase is INCOMPLETE, in the JSON
\* document and in the table.
C29_TailDecides ==
    Parsed =>
        \A i \in 1..Len(Phases) :
            \E S \in {SuspiciousLines(Phases[i])} :
                /\ Len(debug_status[Phases[i]]) <= TailLength
                /\ (/\ HasStart(Phases[i]) /\ ~HasEnd(Phases[i])
                    /\ S # {} /\ WordsBeforeTailOnly(Max(S \cup {1}))) =>
                        /\ JsonCalled => phase_status[Phases[i]] = "INCOMPLETE"
                        /\ JsonCalled /\ Phases[i] \in JsonPhases =>
                            PhaseBlock(Phases[i]).status = "INCOMPLETE"
                        /\ TableShown => LastRows[i].state = "INCOMPLETE"

\* the indexer phase has a start and no end, its fallback line was selected
\* for its 'warn', which lies before the last 120 characters: INCOMPLETE
C29_Witness ==
    /\ JsonCalled
    /\ HasStart("indexer") /\ ~HasEnd("indexer")
    /\ SuspiciousLines("indexer") # {}
    /\ WordsBeforeTailOnly(Max(SuspiciousLines("indexer") \cup {1}))
    /\ Has("warn", LowerOf(lines[Max(SuspiciousLines("indexer") \cup {1})]))
    /\ Len(lines[Max(SuspiciousLines("indexer") \cup {1})]) > TailLength
    /\ Len(debug_status["indexer"]) = TailLength
    /\ PhaseBlock("indexer").status = "INCOMPLETE"

\* the trace ids the run skipped
Skipped ==
    {stdout[k].trace_id : k \in {n \in 1..Len(stdout) : stdout[n].ev = "skipped"}}

\* C30: in JSON mode, when trace ids were discovered and every one of them
\* was skipped, the run still prints one JSON value, the empty array, after
\* the last trace id, and ends with exit status 0.
C30_AllSkippedEmptyArray ==
    (format = "json" /\ trace_ids # <<>> /\ idx = Len(trace_ids)
        /\ Parsed /\ Skipped = TraceIdSet) =>
        /\ all_results = <<>>
        /\ pc = "loop" => JsonEvents = {} /\ exit_code = -1
        /\ pc = "done" =>
            /\ exit_code = 0
            /\ JsonEvents = {Len(stdout)}
            /\ stdout[Len(stdout)] =
                  [ev |-> "json", kind |-> "array", value |-> <<>>]

\* every discovered trace id was skipped, and the empty array is out
C30_Witness ==
    /\ format = "json" /\ pc = "done" /\ exit_code = 0
    /\ trace_ids # <<>> /\ Skipped = TraceIdSet
    /\ stdout[Len(stdout)].ev = "json"
    /\ stdout[Len(stdout)].kind = "array"
    /\ stdout[Len(stdout)].value = <<>>

====
